---- MODULE Spec2Model ----
(***************************************************************************)
(* State-machine model of src-tauri/src/main.rs of interview-helper: the   *)
(* debounced window commands (toggle_window_visibility, nudge_window), the *)
(* image queue (add_image_to_queue, get_queue_length, clear_queue) and the *)
(* inference commands over the queue (call_gemini_with_image_queue,        *)
(* call_beast_mode).  Every command invocation runs on one of Threads and  *)
(* is cut into steps at each lock acquisition, atomic operation and        *)
(* external call, so that invocations interleave as the mutexes allow.     *)
(*                                                                         *)
(* Time is the monotonic clock of std::time::Instant in milliseconds.      *)
(* The host window exists (main's setup unwraps it) and its setters        *)
(* succeed; screen capture, file access and the two HTTP services are      *)
(* inputs chosen nondeterministically.                                     *)
(***************************************************************************)
EXTENDS Integers, Sequences, FiniteSets, TLC

\* ---------------------------------------------------------------- bounds
NumThreads == 2
MaxCalls == 3
MaxTicks == 4

\* ------------------------------------------------------ program constants
TOGGLE_DEBOUNCE_MS == 350
NUDGE_DEBOUNCE_MS == 120
CAPTURE_DEBOUNCE_MS == 500
INITIAL_BACKDATE_MS == 1000
DEFAULT_NUDGE_STEP == 50

\* The resolutions at which a run observes the clock, in milliseconds: half
\* of a gate's interval where the gate itself is studied, and the whole
\* capture interval where only the order of the pictures matters.
Resolutions ==
    {NUDGE_DEBOUNCE_MS \div 2, TOGGLE_DEBOUNCE_MS \div 2,
     CAPTURE_DEBOUNCE_MS \div 2, CAPTURE_DEBOUNCE_MS}

Threads == 1..NumThreads
NoThread == 0

VARIABLES
    clock,          \* the latest reading of Instant::now(), ms
    quantum,        \* the run's clock resolution, ms
    visible,        \* ToggleState.visible
    last_toggle,    \* ToggleState.last_toggle
    last_nudge,     \* ToggleState.last_nudge
    last_capture,   \* ImageQueue.last_capture
    images,         \* ImageQueue.images
    window,         \* the "main" webview window's properties and position
    config,         \* AppConfig: api_key, model, hf_token
    env,            \* process environment: GEMINI_API_KEY, HUGGINGFACE_TOKEN
    files,          \* the scratch directory: path -> bytes of the saved PNG
    mtx,            \* holder of each Mutex (NoThread when free)
    pc,             \* position of each thread inside its command
    loc,            \* local variables of each thread's command
    calls,          \* number of command invocations so far
    overlap,        \* history: some command was invoked while another ran
    log,            \* history: one record per invocation, in the order the
                    \* invocations passed their first critical section
    cleared         \* history: clear_queue ran and nothing was pushed since

vars == <<clock, quantum, visible, last_toggle, last_nudge, last_capture,
          images, window, config, env, files, mtx, pc, loc, calls, overlap,
          log, cleared>>

gateVars == <<last_toggle, last_nudge, last_capture>>
queueVars == <<last_capture, images, files, cleared>>
cfgVars == <<config, env>>

\* ------------------------------------------------------------- helpers
None == "None"

LockNames == {"last_toggle", "last_nudge", "last_capture", "images"}

NoLocals ==
    [idx |-> 0, flag |-> FALSE, x |-> 0, y |-> 0, i |-> 0, op |-> None,
     prompt |-> None, paths |-> <<>>, text |-> None, key |-> None]

\* Having passed the critical section with history record idx, thread t
\* goes on at `next`.
Goto(t, next, idx) ==
    /\ pc' = [pc EXCEPT ![t] = next]
    /\ loc' = [loc EXCEPT ![t].idx = idx]

\* Thread t's command is over.
Idle(t) ==
    /\ pc' = [pc EXCEPT ![t] = "idle"]
    /\ loc' = [loc EXCEPT ![t] = NoLocals]

\* Instant::duration_since saturates to zero when `earlier` is later.
DurationSince(now, earlier) == IF now >= earlier THEN now - earlier ELSE 0

Ok(v) == [ok |-> TRUE, val |-> v]
Err(e) == [ok |-> FALSE, val |-> e]

\* A command is invoked on the first idle thread of the pool (idle threads
\* do not differ) and enters its first critical section.
Invoke(t, name) ==
    /\ pc[t] = "idle"
    /\ \A u \in Threads : u < t => pc[u] # "idle"
    /\ calls < MaxCalls
    /\ calls' = calls + 1
    /\ overlap' = (overlap \/ \E u \in Threads : pc[u] # "idle")

\* The history record of an invocation, written when it passes its first
\* critical section (or its first check, when that check makes it return);
\* `now` is the clock reading of a debounced command, and 0 for the others;
\* `raced` marks a set_gemini_api_key invoked while another one ran.
Entry(name, now, granted) ==
    [op |-> name, now |-> now, granted |-> granted, done |-> FALSE,
     ret |-> None, path |-> 0, after_clear |-> FALSE, snap |-> <<>>,
     text |-> None, hf |-> None, sent |-> <<>>, raced |-> FALSE]

\* The invocation with record idx returns r.
Returned(lg, idx, r) ==
    [lg EXCEPT ![idx] = [@ EXCEPT !.done = TRUE, !.ret = r]]

\* ------------------------------------------------------------ the clock
\* A run lasts MaxTicks half intervals of its gate.
Horizon ==
    INITIAL_BACKDATE_MS
    + MaxTicks * (IF quantum = CAPTURE_DEBOUNCE_MS
                  THEN CAPTURE_DEBOUNCE_MS \div 2 ELSE quantum)

\* What Instant::now() can return to a command: the clock is monotonic, so
\* a reading is the previous reading plus whole multiples of the resolution.
Readings ==
    {n \in {clock + k * quantum : k \in 0..MaxTicks} : n <= Horizon}

\* ------------------------------------------- toggle_window_visibility
\* The arguments of duration_since exchanged: the duration saturates to 0.
ToggleDebouncedSwapped(now, last) ==
    DurationSince(last, now) < TOGGLE_DEBOUNCE_MS

ToggleDebounced(now, last) == DurationSince(now, last) < TOGGLE_DEBOUNCE_MS

\* A store of false in place of the exchange.
ToggleStoreHidden(was) == FALSE

\* fetch_xor(true), line 124: the new value of the flag.
ToggleFlip(was) == ~was

\* The window setters of the branch `if now_visible`, in program order.
ShowSetters ==
    << <<"always_on_top", TRUE>>, <<"decorations", FALSE>>,
       <<"content_protected", TRUE>>, <<"skip_taskbar", TRUE>>,
       <<"ignore_cursor_events", FALSE>> >>

\* Hiding that also drops always-on-top.
HideSettersUnstyle ==
    << <<"always_on_top", FALSE>>, <<"ignore_cursor_events", TRUE>> >>

\* The window setters of the else branch.
HideSetters == << <<"ignore_cursor_events", TRUE>> >>

ToggleSetters(now_visible) == IF now_visible THEN ShowSetters ELSE HideSetters

\* The gate stamped by a debounced request as well.
ToggleGateStampsDenied(t) ==
    /\ Invoke(t, "toggle")
    /\ mtx["last_toggle"] = NoThread
    /\ \E now \in Readings :
       LET idx == Len(log) + 1
       IN /\ clock' = now
          /\ last_toggle' = now
          /\ IF ToggleDebounced(now, last_toggle)
             THEN /\ log' = Returned(Append(log, Entry("toggle", now, FALSE)),
                                     idx, visible)
                  /\ UNCHANGED <<pc, loc>>
             ELSE /\ log' = Append(log, Entry("toggle", now, TRUE))
                  /\ pc' = [pc EXCEPT ![t] = "tg_flip"]
                  /\ loc' = [loc EXCEPT ![t].idx = idx]
    /\ UNCHANGED <<quantum, visible, last_nudge, queueVars, window,
                   cfgVars, mtx>>

\* Lines 113-121, the critical section of last_toggle: read the clock,
\* compare, and either return the flag or stamp the gate.
ToggleGate(t) ==
    /\ Invoke(t, "toggle")
    /\ mtx["last_toggle"] = NoThread
    /\ \E now \in Readings :
       LET idx == Len(log) + 1
       IN /\ clock' = now
          /\ IF ToggleDebounced(now, last_toggle)
             THEN /\ log' = Returned(Append(log, Entry("toggle", now, FALSE)),
                                     idx, visible)
                  /\ UNCHANGED <<last_toggle, pc, loc>>
             ELSE /\ last_toggle' = now
                  /\ log' = Append(log, Entry("toggle", now, TRUE))
                  /\ pc' = [pc EXCEPT ![t] = "tg_flip"]
                  /\ loc' = [loc EXCEPT ![t].idx = idx]
    /\ UNCHANGED <<quantum, visible, last_nudge, queueVars, window,
                   cfgVars, mtx>>

\* Lines 124-125: fetch_xor(true) and the negation of what it returned.
ToggleXor(t) ==
    /\ pc[t] = "tg_flip"
    /\ visible' = ToggleFlip(visible)
    /\ loc' = [loc EXCEPT ![t].flag = ~visible, ![t].i = 1]
    /\ pc' = [pc EXCEPT ![t] = "tg_set"]
    /\ UNCHANGED <<clock, quantum, gateVars, queueVars, window, cfgVars, mtx,
                   calls, overlap, log>>

\* One window setter per step (lines 130-134 or 137); after the last one
\* the command returns now_visible.
ToggleSet(t) ==
    /\ pc[t] = "tg_set"
    /\ LET todo == ToggleSetters(loc[t].flag)
           s == todo[loc[t].i]
       IN /\ window' = [window EXCEPT ![s[1]] = s[2]]
          /\ IF loc[t].i < Len(todo)
             THEN /\ loc' = [loc EXCEPT ![t].i = @ + 1]
                  /\ UNCHANGED <<pc, log>>
             ELSE /\ log' = Returned(log, loc[t].idx, loc[t].flag)
                  /\ pc' = [pc EXCEPT ![t] = "idle"]
                  /\ loc' = [loc EXCEPT ![t] = NoLocals]
    /\ UNCHANGED <<clock, quantum, visible, gateVars, queueVars, cfgVars, mtx,
                   calls, overlap>>

\* ------------------------------------------------------- nudge_window
\* <= in place of <.
NudgeDebouncedInclusive(now, last) ==
    DurationSince(now, last) <= NUDGE_DEBOUNCE_MS

NudgeDebounced(now, last) == DurationSince(now, last) < NUDGE_DEBOUNCE_MS

\* The (direction, step) arguments the commands are invoked with.
NudgeArgs == {<<"up", 0>>, <<"right", 20>>, <<"nowhere", 0>>}

NudgeDelta(step) == IF step = 0 THEN DEFAULT_NUDGE_STEP ELSE step

NudgeTarget(x, y, dir, step) ==
    LET delta == NudgeDelta(step)
    IN CASE dir = "up" -> <<x, y - delta>>
         [] dir = "down" -> <<x, y + delta>>
         [] dir = "left" -> <<x - delta, y>>
         [] dir = "right" -> <<x + delta, y>>
         [] OTHER -> <<x, y>>

\* Lines 82-89, the critical section of last_nudge.
NudgeGate(t) ==
    /\ Invoke(t, "nudge")
    /\ mtx["last_nudge"] = NoThread
    /\ \E now \in Readings :
       LET idx == Len(log) + 1
       IN /\ clock' = now
          /\ IF NudgeDebounced(now, last_nudge)
             THEN /\ log' = Returned(Append(log, Entry("nudge", now, FALSE)),
                                     idx, "unit")
                  /\ UNCHANGED <<last_nudge, pc, loc>>
             ELSE /\ last_nudge' = now
                  /\ log' = Append(log, Entry("nudge", now, TRUE))
                  /\ pc' = [pc EXCEPT ![t] = "nd_read"]
                  /\ loc' = [loc EXCEPT ![t].idx = idx]
    /\ UNCHANGED <<quantum, visible, last_toggle, queueVars, window,
                   cfgVars, mtx>>

\* Lines 91-103: outer_position and the new coordinates; direction and
\* step are the command's arguments.
NudgeRead(t) ==
    /\ pc[t] = "nd_read"
    /\ \E a \in NudgeArgs :
          LET to == NudgeTarget(window.x, window.y, a[1], a[2])
          IN loc' = [loc EXCEPT ![t].x = to[1], ![t].y = to[2]]
    /\ pc' = [pc EXCEPT ![t] = "nd_move"]
    /\ UNCHANGED <<clock, quantum, visible, gateVars, queueVars, window,
                   cfgVars, mtx, calls, overlap, log>>

\* Line 105: set_position.
NudgeMove(t) ==
    /\ pc[t] = "nd_move"
    /\ window' = [window EXCEPT !.x = loc[t].x, !.y = loc[t].y]
    /\ log' = Returned(log, loc[t].idx, "unit")
    /\ pc' = [pc EXCEPT ![t] = "idle"]
    /\ loc' = [loc EXCEPT ![t] = NoLocals]
    /\ UNCHANGED <<clock, quantum, visible, gateVars, queueVars, cfgVars, mtx,
                   calls, overlap>>

\* ------------------------------------------------- add_image_to_queue
\* The interval of nudge_window in place of the capture interval.
CaptureDebouncedNudgeInterval(now, last) ==
    DurationSince(now, last) < NUDGE_DEBOUNCE_MS

CaptureDebounced(now, last) == DurationSince(now, last) < CAPTURE_DEBOUNCE_MS

\* What lines 372-387 can end with, besides a saved file: an error before
\* the capture (the literal of line 373) or one after it (the message of the
\* library that fails to capture, convert or save, as one text).
CaptureFailures == {"No screens found", "save failed"}

\* The pictures on the screen: the k-th file saved in a run holds k bytes
\* of the PNG signature, so that every padding of the encoding occurs.
PngSignature == <<137, 80, 78, 71, 13, 10, 26, 10>>
Picture(k) == SubSeq(PngSignature, 1, ((k - 1) % Len(PngSignature)) + 1)

\* push_front in place of push_back.
PushFront(q, path) == <<path>> \o q

\* images.push_back(path), line 390.
PushBack(q, path) == Append(q, path)

\* Lines 361-370: the critical section of last_capture.  A debounced call
\* keeps the guard of last_capture while it goes for the queue's lock.
AddGate(t) ==
    /\ Invoke(t, "add")
    /\ mtx["last_capture"] = NoThread
    /\ \E now \in Readings :
       LET idx == Len(log) + 1
       IN /\ clock' = now
          /\ IF CaptureDebounced(now, last_capture)
             THEN /\ mtx' = [mtx EXCEPT !["last_capture"] = t]
                  /\ log' = Append(log, Entry("add", now, FALSE))
                  /\ Goto(t, "aq_denied", idx)
                  /\ UNCHANGED last_capture
             ELSE /\ last_capture' = now
                  /\ log' = Append(log, Entry("add", now, TRUE))
                  /\ Goto(t, "aq_capture", idx)
                  /\ UNCHANGED mtx
    /\ UNCHANGED <<quantum, visible, last_toggle, last_nudge, images,
                   files, cleared, window, cfgVars>>

\* A debounced call reported as an error.
DeniedError(q) == Err("debounced")

\* Line 367: the length of the queue, as a success.
DeniedLength(q) == Ok(Len(q))

\* A debounced call that returns without dropping the guard of
\* last_capture.
AddDeniedKeepsGuard(t) ==
    /\ pc[t] = "aq_denied"
    /\ mtx["images"] = NoThread
    /\ mtx' = mtx
    /\ log' = Returned(log, loc[t].idx, DeniedLength(images))
    /\ Idle(t)
    /\ UNCHANGED <<clock, quantum, visible, gateVars, images, files, cleared,
                   window, cfgVars, calls, overlap>>

\* Lines 366-367.
AddDenied(t) ==
    /\ pc[t] = "aq_denied"
    /\ mtx["images"] = NoThread
    /\ mtx' = [mtx EXCEPT !["last_capture"] = NoThread]
    /\ log' = Returned(log, loc[t].idx, DeniedLength(images))
    /\ Idle(t)
    /\ UNCHANGED <<clock, quantum, visible, gateVars, images, files, cleared,
                   window, cfgVars, calls, overlap>>

\* A failed capture that opens the gate again.
AddCaptureReopensGate(t) ==
    /\ pc[t] = "aq_capture"
    /\ \/ \E e \in CaptureFailures :
            /\ log' = Returned(log, loc[t].idx, Err(e))
            /\ Idle(t)
            /\ last_capture' = last_capture - CAPTURE_DEBOUNCE_MS
            /\ UNCHANGED files
       \/ /\ files' = Append(files, Picture(Len(files) + 1))
          /\ pc' = [pc EXCEPT ![t] = "aq_push"]
          /\ loc' = [loc EXCEPT ![t].i = Len(files) + 1]
          /\ log' = [log EXCEPT ![loc[t].idx].path = Len(files) + 1]
          /\ UNCHANGED last_capture
    /\ UNCHANGED <<clock, quantum, visible, last_toggle, last_nudge, images,
                   cleared, window, cfgVars, mtx, calls, overlap>>

\* Lines 372-387: capture the screen and save it under a fresh name, or
\* fail on the way.
AddCapture(t) ==
    /\ pc[t] = "aq_capture"
    /\ \/ \E e \in CaptureFailures :
            /\ log' = Returned(log, loc[t].idx, Err(e))
            /\ Idle(t)
            /\ UNCHANGED files
       \/ /\ files' = Append(files, Picture(Len(files) + 1))
          /\ pc' = [pc EXCEPT ![t] = "aq_push"]
          /\ loc' = [loc EXCEPT ![t].i = Len(files) + 1]
          /\ log' = [log EXCEPT ![loc[t].idx].path = Len(files) + 1]
    /\ UNCHANGED <<clock, quantum, visible, gateVars, images, cleared, window,
                   cfgVars, mtx, calls, overlap>>

\* Lines 389-391.
AddPush(t) ==
    /\ pc[t] = "aq_push"
    /\ mtx["images"] = NoThread
    /\ images' = PushBack(images, loc[t].i)
    /\ cleared' = FALSE
    /\ log' = Returned(log, loc[t].idx, Ok(Len(images')))
    /\ Idle(t)
    /\ UNCHANGED <<clock, quantum, visible, gateVars, files, window, cfgVars,
                   mtx, calls, overlap>>

\* --------------------------------------- get_queue_length, clear_queue
QueueLength(q) == Len(q)

\* A clear that leaves the oldest picture in the queue.
ClearedButOldest(q) == IF q = <<>> THEN q ELSE <<q[1]>>

Cleared(q) == <<>>

\* Lines 396-397.
GetQueueLength(t) ==
    /\ Invoke(t, "len")
    /\ mtx["images"] = NoThread
    /\ log' = Returned(Append(log, [Entry("len", 0, TRUE)
                                      EXCEPT !.after_clear = cleared]),
                       Len(log) + 1, QueueLength(images))
    /\ UNCHANGED <<clock, quantum, visible, gateVars, images, files, cleared,
                   window, cfgVars, mtx, pc, loc>>

\* Lines 402-403.
ClearQueue(t) ==
    /\ Invoke(t, "clear")
    /\ mtx["images"] = NoThread
    /\ images' = Cleared(images)
    /\ cleared' = TRUE
    /\ log' = Returned(Append(log, Entry("clear", 0, TRUE)),
                       Len(log) + 1, "unit")
    /\ UNCHANGED <<clock, quantum, visible, gateVars, files, window, cfgVars,
                   mtx, pc, loc>>

\* ------------------------------------------------ capture_full_screen
\* A stand-alone capture that puts its picture in the queue as well.
CaptureFullScreenQueues(t) ==
    /\ Invoke(t, "capture")
    /\ \/ \E e \in CaptureFailures :
            /\ log' = Returned(Append(log, Entry("capture", 0, TRUE)),
                               Len(log) + 1, Err(e))
            /\ UNCHANGED <<files, images>>
       \/ /\ files' = Append(files, Picture(Len(files) + 1))
          /\ images' = Append(images, Len(files) + 1)
          /\ log' = Returned(Append(log, [Entry("capture", 0, TRUE) EXCEPT
                                            !.path = Len(files) + 1]),
                             Len(log) + 1, Ok(Len(files) + 1))
    /\ UNCHANGED <<clock, quantum, visible, gateVars, cleared, window,
                   cfgVars, mtx, pc, loc>>

\* Lines 175-192: the screen is captured and saved under a fresh name,
\* whose path is returned, or the call fails on the way; the queue is not
\* involved.
CaptureFullScreen(t) ==
    /\ Invoke(t, "capture")
    /\ \/ \E e \in CaptureFailures :
            /\ log' = Returned(Append(log, Entry("capture", 0, TRUE)),
                               Len(log) + 1, Err(e))
            /\ UNCHANGED files
       \/ /\ files' = Append(files, Picture(Len(files) + 1))
          /\ log' = Returned(Append(log, [Entry("capture", 0, TRUE) EXCEPT
                                            !.path = Len(files) + 1]),
                             Len(log) + 1, Ok(Len(files) + 1))
    /\ UNCHANGED <<clock, quantum, visible, gateVars, images, cleared, window,
                   cfgVars, mtx, pc, loc>>

\* ------------------------------------------------------ set_hf_token
HfTokens == {"", "hf1"}

\* Lines 250-257, under the guard of config.hf_token.
SetHfToken(t) ==
    /\ Invoke(t, "set_hf_token")
    /\ \E token \in HfTokens :
          LET stored == IF token = "" THEN None ELSE token
          IN /\ config' = [config EXCEPT !.hf_token = stored]
             /\ env' = [env EXCEPT !.HUGGINGFACE_TOKEN = stored]
    /\ log' = Returned(Append(log, Entry("set_hf_token", 0, TRUE)),
                       Len(log) + 1, Ok("unit"))
    /\ UNCHANGED <<clock, quantum, visible, gateVars, images, files, cleared,
                   window, mtx, pc, loc>>

\* ------------------------------------------------------------- base64
Base64Alphabet ==
    << "A", "B", "C", "D", "E", "F", "G", "H", "I", "J", "K", "L", "M",
       "N", "O", "P", "Q", "R", "S", "T", "U", "V", "W", "X", "Y", "Z",
       "a", "b", "c", "d", "e", "f", "g", "h", "i", "j", "k", "l", "m",
       "n", "o", "p", "q", "r", "s", "t", "u", "v", "w", "x", "y", "z",
       "0", "1", "2", "3", "4", "5", "6", "7", "8", "9", "+", "/" >>

Sextet(n) == Base64Alphabet[n + 1]

\* general_purpose::STANDARD.encode: three bytes to four characters, the
\* last group padded with "=".
RECURSIVE Base64Encode(_)
Base64Encode(bytes) ==
    IF Len(bytes) = 0 THEN <<>>
    ELSE IF Len(bytes) = 1 THEN
        << Sextet(bytes[1] \div 4), Sextet((bytes[1] % 4) * 16), "=", "=" >>
    ELSE IF Len(bytes) = 2 THEN
        << Sextet(bytes[1] \div 4),
           Sextet((bytes[1] % 4) * 16 + bytes[2] \div 16),
           Sextet((bytes[2] % 16) * 4), "=" >>
    ELSE
        << Sextet(bytes[1] \div 4),
           Sextet((bytes[1] % 4) * 16 + bytes[2] \div 16),
           Sextet((bytes[2] % 16) * 4 + bytes[3] \div 64),
           Sextet(bytes[3] % 64) >>
        \o Base64Encode(SubSeq(bytes, 4, Len(bytes)))

\* ------------- call_gemini_with_image_queue and call_beast_mode, stage 1
Prompts == {"prompt0"}

MissingKey == "GEMINI_API_KEY environment variable not set."
EmptyQueue == "No images in queue"

BatchSystem ==
    "Be concise and helpful. Analyze all provided images in order."
ExtractSystem ==
    "You are an expert content extractor. Extract ALL text, formulas, diagrams, and structured information from the provided images. Be comprehensive and detailed."
ExtractModel == "gemini-2.0-flash"

\* What exec_chat can end with: an error, or a response with or without
\* a text content.
ChatErrors == {"provider error"}
ChatTexts == {None, "text-A"}

TextPart(p) == [kind |-> "text", mime |-> None, data |-> <<p>>]
ImagePart(b64) == [kind |-> "image", mime |-> "image/png", data |-> b64]

\* images.iter().cloned().collect::<Vec<String>>()
Snapshot(q) == [k \in 1..Len(q) |-> q[k]]

\* A part put in front of the others.
PushPartFront(parts, part) == <<part>> \o parts

\* content_parts.push(..), lines 431 and 478.
PushPart(parts, part) == Append(parts, part)

\* unwrap_or("[No response]"), unwrap_or("[No extraction]")
TextOr(reply, placeholder) == IF reply = None THEN placeholder ELSE reply

\* Lines 408-410 and 454-456: the key is looked for in the environment.
InferStart(t, name) ==
    /\ Invoke(t, name)
    /\ LET idx == Len(log) + 1
       IN IF env.GEMINI_API_KEY = None
          THEN /\ log' = Returned(Append(log, Entry(name, 0, FALSE)),
                                  idx, Err(MissingKey))
               /\ UNCHANGED <<pc, loc>>
          ELSE /\ log' = Append(log, Entry(name, 0, TRUE))
               /\ pc' = [pc EXCEPT ![t] = "iq_snap"]
               /\ \E p \in Prompts :
                     loc' = [loc EXCEPT ![t] = [NoLocals EXCEPT !.idx = idx,
                                                   !.op = name, !.prompt = p]]
    /\ UNCHANGED <<clock, quantum, visible, gateVars, images, files, cleared,
                   window, cfgVars, mtx>>

BatchStart(t) == InferStart(t, "batch")

BeastStart(t) == InferStart(t, "beast")

\* Lines 413-422 and 459-469: the copy of the queue, taken under its lock,
\* or the error of an empty queue.
InferSnap(t) ==
    /\ pc[t] = "iq_snap"
    /\ mtx["images"] = NoThread
    /\ LET idx == loc[t].idx
           seen == [log EXCEPT ![idx].after_clear = cleared,
                               ![idx].snap = images]
       IN IF images = <<>>
          THEN /\ log' = Returned(seen, idx, Err(EmptyQueue))
               /\ Idle(t)
          ELSE /\ log' = seen
               /\ pc' = [pc EXCEPT ![t] = "iq_send"]
               /\ loc' = [loc EXCEPT ![t].paths = Snapshot(images)]
    /\ UNCHANGED <<clock, quantum, visible, gateVars, images, files, cleared,
                   window, cfgVars, mtx, calls, overlap>>

\* Lines 425-432 and 472-479: the loop over the copied paths, from the
\* i-th on; every file is read and its encoding becomes the next part.
RECURSIVE EncodeFrom(_, _, _, _)
EncodeFrom(fs, paths, i, parts) ==
    IF i > Len(paths) THEN parts
    ELSE EncodeFrom(fs, paths, i + 1,
                    PushPart(parts, ImagePart(Base64Encode(fs[paths[i]]))))

\* The paths taken from the queue again when the files are read, in place
\* of the copy.
InferSendFromQueue(t) ==
    /\ pc[t] = "iq_send"
    /\ \/ /\ log' = Returned(log, loc[t].idx, Err("file not readable"))
          /\ Idle(t)
       \/ LET parts == EncodeFrom(files, Snapshot(images), 1,
                                  <<TextPart(loc[t].prompt)>>)
              request ==
                [to |-> "gemini",
                 model |-> IF loc[t].op = "batch" THEN config.model
                           ELSE ExtractModel,
                 system |-> IF loc[t].op = "batch" THEN BatchSystem
                            ELSE ExtractSystem,
                 parts |-> parts]
          IN /\ log' = [log EXCEPT ![loc[t].idx].sent = Append(@, request)]
             /\ pc' = [pc EXCEPT ![t] = "iq_wait"]
             /\ UNCHANGED loc
    /\ UNCHANGED <<clock, quantum, visible, gateVars, images, files, cleared,
                   window, cfgVars, mtx, calls, overlap>>

\* Lines 421-442 and 468-488: the files are read (or one of them cannot
\* be) and the request goes out, to the configured model or to the pinned
\* one.
InferSend(t) ==
    /\ pc[t] = "iq_send"
    /\ \/ /\ log' = Returned(log, loc[t].idx, Err("file not readable"))
          /\ Idle(t)
       \/ LET parts == EncodeFrom(files, loc[t].paths, 1,
                                  <<TextPart(loc[t].prompt)>>)
              request ==
                [to |-> "gemini",
                 model |-> IF loc[t].op = "batch" THEN config.model
                           ELSE ExtractModel,
                 system |-> IF loc[t].op = "batch" THEN BatchSystem
                            ELSE ExtractSystem,
                 parts |-> parts]
          IN /\ log' = [log EXCEPT ![loc[t].idx].sent = Append(@, request)]
             /\ pc' = [pc EXCEPT ![t] = "iq_wait"]
             /\ UNCHANGED loc
    /\ UNCHANGED <<clock, quantum, visible, gateVars, images, files, cleared,
                   window, cfgVars, mtx, calls, overlap>>

\* Lines 443-449: the response of the batch call.
BatchRecv(t) ==
    /\ pc[t] = "iq_wait"
    /\ loc[t].op = "batch"
    /\ \/ \E e \in ChatErrors : log' = Returned(log, loc[t].idx, Err(e))
       \/ \E reply \in ChatTexts :
            log' = Returned(log, loc[t].idx,
                            Ok(<<TextOr(reply, "[No response]")>>))
    /\ Idle(t)
    /\ UNCHANGED <<clock, quantum, visible, gateVars, images, files, cleared,
                   window, cfgVars, mtx, calls, overlap>>

\* ------------------------------------------- the primary credential
KeyArgs == {"", " ", "key1"}

\* key.trim().is_empty()
KeyIsBlank(key) == key \in {"", " "}

\* Lines 199-200: what config.api_key becomes.
StoredKey(key) == IF KeyIsBlank(key) THEN None ELSE key

\* Only the empty key removes the variable.
ExportedKeyUntrimmed(key) == IF key = "" THEN None ELSE key

\* Lines 202-206: what the variable GEMINI_API_KEY becomes.
ExportedKey(key) == IF KeyIsBlank(key) THEN None ELSE key

\* set_gemini_api_key, lines 198-201: the block under the guard of
\* config.api_key; the guard is dropped at the end of the block.
SetKeyConfig(t) ==
    /\ Invoke(t, "set_key")
    /\ \E key \in KeyArgs :
          /\ config' = [config EXCEPT !.api_key = StoredKey(key)]
          /\ loc' = [loc EXCEPT ![t] = [NoLocals EXCEPT !.idx = Len(log) + 1,
                                                        !.key = key]]
    /\ log' = Append(log, [Entry("set_key", 0, TRUE) EXCEPT
                              !.raced = \E u \in Threads : pc[u] = "sk_env"])
    /\ pc' = [pc EXCEPT ![t] = "sk_env"]
    /\ UNCHANGED <<clock, quantum, visible, gateVars, images, files, cleared,
                   window, env, mtx>>

\* set_gemini_api_key, lines 202-230: the variable of the process, set or
\* removed outside the guard, and the return.
SetKeyEnv(t) ==
    /\ pc[t] = "sk_env"
    /\ env' = [env EXCEPT !.GEMINI_API_KEY = ExportedKey(loc[t].key)]
    /\ log' = Returned(log, loc[t].idx, Ok("unit"))
    /\ Idle(t)
    /\ UNCHANGED <<clock, quantum, visible, gateVars, images, files, cleared,
                   window, config, mtx, calls, overlap>>

\* get_gemini_api_key, lines 234-239.
GetGeminiApiKey(t) ==
    /\ Invoke(t, "get_key")
    /\ log' = Returned(Append(log, Entry("get_key", 0, TRUE)),
                       Len(log) + 1, config.api_key)
    /\ UNCHANGED <<clock, quantum, visible, gateVars, images, files, cleared,
                   window, cfgVars, mtx, pc, loc>>

\* ---------------------------------------------------------- set_model
ModelArgs == {"gemini-2.5-flash"}

\* Lines 243-245, under the guard of config.model.
SetModel(t) ==
    /\ Invoke(t, "set_model")
    /\ \E model \in ModelArgs :
          /\ config' = [config EXCEPT !.model = model]
          /\ log' = Returned(Append(log, Entry("set_model", 0, TRUE)),
                             Len(log) + 1, Ok(model))
    /\ UNCHANGED <<clock, quantum, visible, gateVars, images, files, cleared,
                   window, env, mtx, pc, loc>>

\* ----------------------------------------------------------- call_gemini
AskSystem == "Be concise and helpful."

\* Lines 294-296: the key is looked for in the environment.
AskStart(t) ==
    /\ Invoke(t, "ask")
    /\ LET idx == Len(log) + 1
       IN IF env.GEMINI_API_KEY = None
          THEN /\ log' = Returned(Append(log, Entry("ask", 0, FALSE)),
                                  idx, Err(MissingKey))
               /\ UNCHANGED <<pc, loc>>
          ELSE /\ log' = Append(log, Entry("ask", 0, TRUE))
               /\ pc' = [pc EXCEPT ![t] = "cg_send"]
               /\ \E p \in Prompts :
                     loc' = [loc EXCEPT ![t] = [NoLocals EXCEPT !.idx = idx,
                                                   !.op = "ask", !.prompt = p]]
    /\ UNCHANGED <<clock, quantum, visible, gateVars, images, files, cleared,
                   window, cfgVars, mtx>>

\* Lines 300-309: the request, to the model read from the configuration.
AskSend(t) ==
    /\ pc[t] = "cg_send"
    /\ log' = [log EXCEPT ![loc[t].idx].sent =
                  Append(@, [to |-> "gemini", model |-> config.model,
                             system |-> AskSystem,
                             parts |-> <<TextPart(loc[t].prompt)>>])]
    /\ pc' = [pc EXCEPT ![t] = "cg_wait"]
    /\ UNCHANGED <<clock, quantum, visible, gateVars, images, files, cleared,
                   window, cfgVars, mtx, loc, calls, overlap>>

\* Lines 307-315: the response.
AskRecv(t) ==
    /\ pc[t] = "cg_wait"
    /\ \/ \E e \in ChatErrors : log' = Returned(log, loc[t].idx, Err(e))
       \/ \E reply \in ChatTexts :
            log' = Returned(log, loc[t].idx,
                            Ok(<<TextOr(reply, "[No response]")>>))
    /\ Idle(t)
    /\ UNCHANGED <<clock, quantum, visible, gateVars, images, files, cleared,
                   window, cfgVars, mtx, calls, overlap>>

\* ------------------------------------------- call_beast_mode, stage 2
Banner == "## BEAST MODE EXTRACTION COMPLETE!"
ContentLabel == "**Extracted Content:**"
NoteNotConfigured ==
    "**Note:** Hugging Face token not configured. The extracted content above contains all the information from your images. Set a Hugging Face token in the app to enable advanced AI processing."
NoteUnavailable ==
    "**Note:** Advanced AI processing is temporarily unavailable (Service Unavailable). The extracted content above contains all the information from your images. You can use this content directly or try again later."
NoteBadRequest ==
    "**Note:** Advanced AI processing request format error (Bad Request). The extracted content above contains all the information from your images. You can use this content directly."
NoteNetwork ==
    "**Note:** Network error occurred while connecting to advanced AI processing: "
NoteNetworkEnd ==
    ". The extracted content above contains all the information from your images. You can use this content directly or check your internet connection and try again."

\* Lines 504-507.
FinalPrompt(extracted) ==
    << "Based on the extracted content below, provide comprehensive answers:",
       extracted,
       "For MCQ questions: Identify all possibilities for single correct and multiple correct answers.",
       "For coding questions: Provide complete code solutions in the requested language with proper formatting." >>

\* The notice without the extraction.
NotConfiguredBodyBare(extracted) == <<Banner, NoteNotConfigured>>

\* Lines 585-588.
NotConfiguredBody(extracted) ==
    <<Banner, ContentLabel, extracted, NoteNotConfigured>>

\* What the POST of lines 512-528 can end with: no response (an error of
\* the transport, the timeout of 120 s among them), or a status with a
\* body.
HfShapes ==
    {"array_text", "array_no_text", "array_empty", "object_text",
     "object_other", "not_json"}
HfFailures == {400, 500, 503}
HfOutcomes ==
    { [kind |-> "transport", status |-> 0, body |-> "timed out"] }
    \cup { [kind |-> "response", status |-> 200, body |-> sh] :
              sh \in HfShapes }
    \cup { [kind |-> "response", status |-> st, body |-> "error body"] :
              st \in HfFailures }
    \cup { [kind |-> "response", status |-> 500, body |-> "unreadable"] }

IsSuccess(status) == status >= 200 /\ status <= 299

\* Lines 532-552: the body of a successful response.
ParsedBody(shape) ==
    CASE shape = "array_text" -> <<"hf answer">>
      [] shape = "array_no_text" -> <<"No generated text in response">>
      [] shape = "array_empty" -> <<"Empty response from AI model">>
      [] shape = "object_text" -> <<"hf answer">>
      [] shape = "object_other" ->
            <<"Unexpected response format from AI model">>
      [] shape = "not_json" ->
            <<"Error parsing AI model response: ", "expected value">>

\* No status degrades: every failure of the POST is an error.
HfResultNoDegrade(o, extracted) ==
    IF o.kind = "transport" THEN Err(<<"transport", o.body>>)
    ELSE IF IsSuccess(o.status) THEN Ok(ParsedBody(o.body))
    ELSE Err(<<"AI model API error (", ToString(o.status), "): ", o.body>>)

\* A failure of the transport that leaves the extraction out of the body.
HfResultBareNetworkNote(o, extracted) ==
    IF o.kind = "transport"
    THEN Ok(<<Banner, NoteNetwork, o.body, NoteNetworkEnd>>)
    ELSE IF IsSuccess(o.status) THEN Ok(ParsedBody(o.body))
    ELSE IF o.status = 503
    THEN Ok(<<Banner, ContentLabel, extracted, NoteUnavailable>>)
    ELSE IF o.status = 400
    THEN Ok(<<Banner, ContentLabel, extracted, NoteBadRequest>>)
    ELSE Ok(<<"AI model API error (", ToString(o.status), "): ",
              IF o.body = "unreadable" THEN "Unknown error" ELSE o.body>>)

\* Lines 529-582: the result of call_beast_mode once the POST is over.
HfResult(o, extracted) ==
    IF o.kind = "transport"
    THEN Ok(<<Banner, ContentLabel, extracted, NoteNetwork, o.body,
              NoteNetworkEnd>>)
    ELSE IF IsSuccess(o.status) THEN Ok(ParsedBody(o.body))
    ELSE IF o.status = 503
    THEN Ok(<<Banner, ContentLabel, extracted, NoteUnavailable>>)
    ELSE IF o.status = 400
    THEN Ok(<<Banner, ContentLabel, extracted, NoteBadRequest>>)
    ELSE Ok(<<"AI model API error (", ToString(o.status), "): ",
              IF o.body = "unreadable" THEN "Unknown error" ELSE o.body>>)

\* Lines 510-528: the POST to the secondary provider.
HfRequest(token, extracted) ==
    [to |-> "huggingface", model |-> "microsoft/DialoGPT-large",
     system |-> token, parts |-> FinalPrompt(extracted)]

\* An error of the extraction stage that does not end the call: the POST
\* goes out with the placeholder.
BeastRecvEscalatesErrors(t) ==
    /\ pc[t] = "iq_wait"
    /\ loc[t].op = "beast"
    /\ env.HUGGINGFACE_TOKEN # None
    /\ \E e \in ChatErrors :
          /\ log' = [log EXCEPT
                       ![loc[t].idx].sent =
                           Append(@, HfRequest(env.HUGGINGFACE_TOKEN, e))]
          /\ pc' = [pc EXCEPT ![t] = "bm_hf"]
          /\ loc' = [loc EXCEPT ![t].text = e]
    /\ UNCHANGED <<clock, quantum, visible, gateVars, images, files, cleared,
                   window, cfgVars, mtx, calls, overlap>>

\* Lines 487-528: the response of the extraction stage.  An error ends the
\* call.  Otherwise, without a token in the environment the call returns
\* the extraction with a notice, and with one the POST goes out.
BeastRecv(t) ==
    /\ pc[t] = "iq_wait"
    /\ loc[t].op = "beast"
    /\ \/ \E e \in ChatErrors :
            /\ log' = Returned(log, loc[t].idx, Err(e))
            /\ Idle(t)
       \/ \E reply \in ChatTexts :
            LET text == TextOr(reply, "[No extraction]")
                idx == loc[t].idx
            IN IF env.HUGGINGFACE_TOKEN = None
               THEN /\ log' = Returned([log EXCEPT ![idx].text = text,
                                                   ![idx].hf = "absent"],
                                       idx, Ok(NotConfiguredBody(text)))
                    /\ Idle(t)
               ELSE /\ log' = [log EXCEPT
                                 ![idx].text = text,
                                 ![idx].sent =
                                     Append(@, HfRequest(
                                                 env.HUGGINGFACE_TOKEN, text))]
                    /\ pc' = [pc EXCEPT ![t] = "bm_hf"]
                    /\ loc' = [loc EXCEPT ![t].text = text]
    /\ UNCHANGED <<clock, quantum, visible, gateVars, images, files, cleared,
                   window, cfgVars, mtx, calls, overlap>>

\* Lines 529-582.
BeastHf(t) ==
    /\ pc[t] = "bm_hf"
    /\ \E o \in HfOutcomes :
          log' = Returned(
                   [log EXCEPT ![loc[t].idx].hf =
                        IF o.kind = "transport" THEN o.kind
                        ELSE ToString(o.status)],
                   loc[t].idx, HfResult(o, loc[t].text))
    /\ Idle(t)
    /\ UNCHANGED <<clock, quantum, visible, gateVars, images, files, cleared,
                   window, cfgVars, mtx, calls, overlap>>

\* --------------------------------------------------------------- start
\* main's setup (lines 618-646): the gates are back-dated by one second,
\* the flag is true, the queue is empty, the configuration mirrors the
\* environment, and four of the window's properties are set.
InitialEnv ==
    { [GEMINI_API_KEY |-> k, HUGGINGFACE_TOKEN |-> h] :
        k \in {None, "key0"}, h \in {None, "hf0"} }

Setup(e) ==
    /\ clock = INITIAL_BACKDATE_MS
    /\ quantum \in Resolutions
    /\ overlap = FALSE
    /\ visible = TRUE
    /\ last_toggle = clock - INITIAL_BACKDATE_MS
    /\ last_nudge = clock - INITIAL_BACKDATE_MS
    /\ last_capture = clock - INITIAL_BACKDATE_MS
    /\ images = <<>>
    /\ env = e
    /\ config = [api_key |-> e.GEMINI_API_KEY, model |-> "gemini-2.5-pro",
                 hf_token |-> e.HUGGINGFACE_TOKEN]
    /\ window = [always_on_top |-> TRUE, decorations |-> FALSE,
                 content_protected |-> TRUE, skip_taskbar |-> TRUE,
                 ignore_cursor_events |-> FALSE, x |-> 0, y |-> 0]
    /\ files = <<>>
    /\ mtx = [m \in LockNames |-> NoThread]
    /\ pc = [t \in Threads |-> "idle"]
    /\ loc = [t \in Threads |-> NoLocals]
    /\ calls = 0
    /\ log = <<>>
    /\ cleared = FALSE

Init == \E e \in InitialEnv : Setup(e)

\* ------------------------------------------------------- specifications
ToggleStep(t) ==
    \/ ToggleGate(t)
    \/ ToggleXor(t)
    \/ ToggleSet(t)

NudgeStep(t) ==
    \/ NudgeGate(t)
    \/ NudgeRead(t)
    \/ NudgeMove(t)

AddStep(t) ==
    \/ AddGate(t)
    \/ AddDenied(t)
    \/ AddCapture(t)
    \/ AddPush(t)

\* The three debounced commands.  A run studies one gate, at the clock
\* resolution of half that gate's interval, from a start without
\* credentials (nothing reaches the secondary provider).
InitGates ==
    /\ Setup([GEMINI_API_KEY |-> None, HUGGINGFACE_TOKEN |-> None])
    /\ quantum # CAPTURE_DEBOUNCE_MS

NextGates ==
    \/ /\ quantum = TOGGLE_DEBOUNCE_MS \div 2
       /\ \E t \in Threads : ToggleStep(t)
    \/ /\ quantum = NUDGE_DEBOUNCE_MS \div 2
       /\ \E t \in Threads : NudgeStep(t)
    \/ /\ quantum = CAPTURE_DEBOUNCE_MS \div 2
       /\ \E t \in Threads : AddStep(t)

SpecGates == InitGates /\ [][NextGates]_vars

QueueStep(t) ==
    \/ GetQueueLength(t)
    \/ ClearQueue(t)

BatchStep(t) ==
    \/ BatchStart(t)
    \/ InferSnap(t)
    \/ InferSend(t)
    \/ BatchRecv(t)

\* call_beast_mode up to the POST to the secondary provider.
ExtractStep(t) ==
    \/ BeastStart(t)
    \/ InferSnap(t)
    \/ InferSend(t)
    \/ BeastRecv(t)

BeastStep(t) ==
    \/ ExtractStep(t)
    \/ BeastHf(t)

\* The queue and what reads it, at the clock resolution of the capture
\* interval, from a start with or without the primary key (nothing
\* reaches the secondary provider).
InitQueue ==
    /\ Init
    /\ quantum = CAPTURE_DEBOUNCE_MS
    /\ env.HUGGINGFACE_TOKEN = None

NextQueue ==
    \/ \E t \in Threads : AddStep(t)
    \/ \E t \in Threads : QueueStep(t)
    \/ \E t \in Threads : BatchStep(t)

SpecQueue == InitQueue /\ [][NextQueue]_vars

\* The two-stage pipeline over a queue that captures fill, at the clock
\* resolution of the capture interval, from every start environment.
InitBeast ==
    /\ Init
    /\ quantum = CAPTURE_DEBOUNCE_MS

NextBeast ==
    \/ \E t \in Threads : AddStep(t)
    \/ \E t \in Threads : BeastStep(t)
    \/ \E t \in Threads : SetHfToken(t)

SpecBeast == InitBeast /\ [][NextBeast]_vars

\* The requests to the primary provider, of the batch call and of the
\* extraction stage, over a queue that captures fill; from a start with
\* the primary key and without the token of the secondary provider, so
\* that the pipeline ends after its extraction stage.
InitRequests ==
    /\ Init
    /\ quantum = CAPTURE_DEBOUNCE_MS
    /\ env.GEMINI_API_KEY # None
    /\ env.HUGGINGFACE_TOKEN = None

NextRequests ==
    \/ \E t \in Threads : AddStep(t)
    \/ \E t \in Threads : BatchStep(t)
    \/ \E t \in Threads : ExtractStep(t)

SpecRequests == InitRequests /\ [][NextRequests]_vars

\* The primary credential: its setter and getter, the single-shot call,
\* and the key checks of the batch call and of the pipeline, which end at
\* the empty queue when the key is there.
KeyStep(t) ==
    \/ SetKeyConfig(t)
    \/ SetKeyEnv(t)
    \/ GetGeminiApiKey(t)

AskStep(t) ==
    \/ AskStart(t)
    \/ AskSend(t)
    \/ AskRecv(t)

KeyCheckStep(t) ==
    \/ BatchStart(t)
    \/ BeastStart(t)
    \/ InferSnap(t)

InitKey ==
    /\ Init
    /\ quantum = CAPTURE_DEBOUNCE_MS
    /\ env.HUGGINGFACE_TOKEN = None

NextKey ==
    \/ \E t \in Threads : KeyStep(t)
    \/ \E t \in Threads : AskStep(t)
    \/ \E t \in Threads : KeyCheckStep(t)

SpecKey == InitKey /\ [][NextKey]_vars

\* The requests again, with clear_queue running beside the calls that
\* hold a copy of the queue.
NextIsolation ==
    \/ \E t \in Threads : AddStep(t)
    \/ \E t \in Threads : ClearQueue(t)
    \/ \E t \in Threads : BatchStep(t)
    \/ \E t \in Threads : ExtractStep(t)

SpecIsolation == InitRequests /\ [][NextIsolation]_vars

\* Every command that could touch the queue, and those the queue must
\* not feel: captures of both kinds, the length, the clear, the batch
\* call, the extraction stage, toggle and nudge.
NextCommands ==
    \/ \E t \in Threads : AddStep(t)
    \/ \E t \in Threads : QueueStep(t)
    \/ \E t \in Threads : CaptureFullScreen(t)
    \/ \E t \in Threads : BatchStep(t)
    \/ \E t \in Threads : ExtractStep(t)
    \/ \E t \in Threads : ToggleStep(t)
    \/ \E t \in Threads : NudgeStep(t)

SpecCommands == InitRequests /\ [][NextCommands]_vars

\* Every command that takes a lock, running beside the others, at the
\* clock resolution of the capture interval, from a start with both
\* credentials (the setters take them away).  A command that has started
\* goes on: the scheduler runs every thread, and the captures and the
\* calls to the providers return.
SetterStep(t) ==
    \/ SetKeyConfig(t)
    \/ SetKeyEnv(t)
    \/ SetHfToken(t)
    \/ SetModel(t)

Proceed(t) ==
    \/ ToggleXor(t)
    \/ ToggleSet(t)
    \/ NudgeRead(t)
    \/ NudgeMove(t)
    \/ AddDenied(t)
    \/ AddCapture(t)
    \/ AddPush(t)
    \/ InferSnap(t)
    \/ InferSend(t)
    \/ BatchRecv(t)
    \/ BeastRecv(t)
    \/ BeastHf(t)
    \/ SetKeyEnv(t)

InitLocks ==
    /\ Setup([GEMINI_API_KEY |-> "key0", HUGGINGFACE_TOKEN |-> "hf0"])
    /\ quantum = CAPTURE_DEBOUNCE_MS

NextLocks ==
    \/ \E t \in Threads : ToggleStep(t)
    \/ \E t \in Threads : NudgeStep(t)
    \/ \E t \in Threads : AddStep(t)
    \/ \E t \in Threads : QueueStep(t)
    \/ \E t \in Threads : BatchStep(t)
    \/ \E t \in Threads : BeastStep(t)
    \/ \E t \in Threads : SetterStep(t)

SpecLocks ==
    /\ InitLocks
    /\ [][NextLocks]_vars
    /\ \A t \in Threads : WF_vars(Proceed(t))

\* ============================================================== claims
AllReturned == \A t \in Threads : pc[t] = "idle"

Entries == 1..Len(log)

OnlyOp(name) == \A k \in Entries : log[k].op = name

\* The minimum interval of the gate a history record went through.
Interval(name) ==
    CASE name = "toggle" -> TOGGLE_DEBOUNCE_MS
      [] name = "nudge" -> NUDGE_DEBOUNCE_MS
      [] name = "add" -> CAPTURE_DEBOUNCE_MS

Gated == {"toggle", "nudge", "add"}

\* Every granted capture of the history succeeded.
CapturesSucceed ==
    \A k \in Entries : (log[k].op = "add" /\ log[k].done) => log[k].ret.ok

\* C1 as stated: after a sequential burst of toggle requests, each issued
\* less than 350 ms after the one before it, the flag is the start's flag
\* flipped once.
C1_ChainedBurstFlipsOnce ==
    ( /\ AllReturned /\ ~overlap /\ Len(log) >= 1 /\ OnlyOp("toggle")
      /\ \A k \in Entries :
            k > 1 => log[k].now - log[k - 1].now < TOGGLE_DEBOUNCE_MS )
    => visible = FALSE

\* C1 amended: after a burst of toggle requests all issued less than
\* 350 ms after the first request of the burst, only the first was granted
\* and the flag is the start's flag flipped once, whatever the length of
\* the burst.
C1_BurstWithinIntervalFlipsOnce ==
    ( /\ AllReturned /\ Len(log) >= 1 /\ OnlyOp("toggle")
      /\ \A k \in Entries :
            k > 1 => log[k].now - log[1].now < TOGGLE_DEBOUNCE_MS )
    => /\ visible = FALSE
       /\ \A k \in Entries : log[k].granted <=> k = 1

C1_Witness ==
    /\ AllReturned /\ Len(log) = MaxCalls /\ OnlyOp("toggle")
    /\ log[Len(log)].now > log[1].now
    /\ log[Len(log)].now - log[1].now < TOGGLE_DEBOUNCE_MS
    /\ visible = FALSE

\* C2 as stated: after N sequential successful calls of add_image_to_queue,
\* each less than 500 ms after the one before it, the queue holds exactly
\* one image.
C2_ChainedBurstQueuesOne ==
    ( /\ AllReturned /\ ~overlap /\ Len(log) >= 1 /\ OnlyOp("add")
      /\ CapturesSucceed
      /\ \A k \in Entries :
            k > 1 => log[k].now - log[k - 1].now < CAPTURE_DEBOUNCE_MS )
    => Len(images) = 1

\* C2 amended: after N successful calls of add_image_to_queue, all less
\* than 500 ms after the first of them, the queue holds exactly one image,
\* for every N.
C2_BurstWithinIntervalQueuesOne ==
    ( /\ AllReturned /\ Len(log) >= 1 /\ OnlyOp("add") /\ CapturesSucceed
      /\ \A k \in Entries :
            k > 1 => log[k].now - log[1].now < CAPTURE_DEBOUNCE_MS )
    => /\ Len(images) = 1
       /\ \A k \in Entries : log[k].granted <=> k = 1

C2_Witness ==
    /\ AllReturned /\ Len(log) = MaxCalls /\ OnlyOp("add") /\ CapturesSucceed
    /\ log[Len(log)].now > log[1].now
    /\ log[Len(log)].now - log[1].now < CAPTURE_DEBOUNCE_MS
    /\ Len(images) = 1

\* C3: after N sequential successful calls of add_image_to_queue, each at
\* least 500 ms after the one before it, the queue holds N images, the k-th
\* call returned k, and the queue lists the N saved files in call order.
C3_SpacedCallsQueueAll ==
    ( /\ AllReturned /\ ~overlap /\ OnlyOp("add") /\ CapturesSucceed
      /\ \A k \in Entries :
            k > 1 => log[k].now - log[k - 1].now >= CAPTURE_DEBOUNCE_MS )
    => /\ Len(images) = Len(log)
       /\ \A k \in Entries : log[k].ret = Ok(k)
       /\ images = [k \in Entries |-> log[k].path]
       /\ \A j, k \in Entries : j # k => log[j].path # log[k].path

C3_Witness ==
    /\ AllReturned /\ ~overlap /\ OnlyOp("add") /\ CapturesSucceed
    /\ Len(log) = MaxCalls
    /\ \A k \in Entries :
          k > 1 => log[k].now - log[k - 1].now >= CAPTURE_DEBOUNCE_MS
    /\ Len(images) = MaxCalls

\* C4 as stated: of the requests (two or more) that reach one gate at the
\* same instant exactly one is granted, and no two requests less than the
\* gate's interval apart are both granted.
C4_ExactlyOnePerInstant ==
    /\ \A j, k \in Entries :
          ( /\ j < k /\ log[j].op \in Gated /\ log[j].op = log[k].op
            /\ log[j].now = log[k].now )
          => \E g \in Entries :
                /\ log[g].op = log[j].op /\ log[g].now = log[j].now
                /\ log[g].granted
    /\ \A j, k \in Entries :
          ( /\ j < k /\ log[j].op \in Gated /\ log[j].op = log[k].op
            /\ log[j].granted /\ log[k].granted )
          => log[k].now - log[j].now >= Interval(log[j].op)

\* C4 amended: a request is granted exactly when no request of its gate
\* was granted less than the gate's interval before it.  So of the requests
\* that reach one gate at the same instant at most one is granted (one when
\* the gate is open, none when it is closed), and no two requests less than
\* the interval apart are both granted.
C4_GrantedIffGateOpen ==
    \A k \in Entries :
        log[k].op \in Gated =>
            ( log[k].granted <=>
                ~ \E j \in Entries :
                     /\ j < k /\ log[j].op = log[k].op /\ log[j].granted
                     /\ log[k].now - log[j].now < Interval(log[k].op) )

\* Two requests at the same instant, the first granted and the second not,
\* and a later request granted again.
C4_Witness ==
    /\ Len(log) = MaxCalls /\ OnlyOp("add")
    /\ log[1].now = log[2].now /\ log[1].granted /\ ~log[2].granted
    /\ \E t \in Threads : pc[t] = "aq_capture"
    /\ log[Len(log)].granted /\ log[Len(log)].now > log[1].now

DocumentedVisible ==
    [always_on_top |-> TRUE, decorations |-> FALSE,
     content_protected |-> TRUE, skip_taskbar |-> TRUE,
     ignore_cursor_events |-> FALSE]

WindowProperties(w) == [p \in DOMAIN DocumentedVisible |-> w[p]]

\* The step is the debounced pass of a request through its gate.
DeniedAtGate == /\ Len(log') = Len(log) + 1
                /\ ~log'[Len(log')].granted

\* C5: a debounced request changes nothing and succeeds: the toggle
\* returns the flag as it is; add_image_to_queue returns Ok(length of the
\* queue) and saves no file; the nudge returns; and the flag, the window,
\* the three timestamps, the queue and the files stay as they are.
C5_DeniedHasNoEffect ==
    [][ /\ DeniedAtGate =>
            /\ UNCHANGED <<visible, window, gateVars, images, files>>
            /\ LET e == log'[Len(log')]
               IN /\ e.op = "toggle" => (e.done /\ e.ret = visible)
                  /\ e.op = "nudge" => e.done
        /\ \A t \in Threads :
              (pc[t] = "aq_denied" /\ pc'[t] # "aq_denied") =>
                  /\ UNCHANGED <<visible, window, gateVars, images, files>>
                  /\ log'[loc[t].idx].done
                  /\ log'[loc[t].idx].ret = Ok(Len(images))
      ]_vars

C5_Witness ==
    \E k \in Entries :
        /\ log[k].op = "add" /\ ~log[k].granted /\ log[k].done
        /\ log[k].ret = Ok(1)
        /\ Len(images) = 1

\* C6: a granted toggle to Visible has, when it returns, called the five
\* setters with the documented values and leaves the window with them; a
\* granted toggle to Hidden changes the window in nothing but
\* ignore_cursor_events, which it sets.
C6_ToggleWindowProperties ==
    [][ \A t \in Threads :
            (pc[t] = "tg_set" /\ pc'[t] = "idle") =>
                IF loc[t].flag
                THEN /\ WindowProperties(window') = DocumentedVisible
                     /\ { ToggleSetters(TRUE)[k] : k \in 1..loc[t].i }
                          = { <<p, DocumentedVisible[p]>> :
                                 p \in DOMAIN DocumentedVisible }
                ELSE /\ window' = [window EXCEPT !.ignore_cursor_events = TRUE]
                     /\ loc[t].i = 1
      ]_vars

\* A toggle to Hidden and a toggle back to Visible have both returned.
C6_Witness ==
    \E j, k \in Entries :
        /\ j < k /\ log[j].op = "toggle" /\ log[k].op = "toggle"
        /\ log[j].done /\ log[j].granted /\ log[j].ret = FALSE
        /\ log[k].done /\ log[k].granted /\ log[k].ret = TRUE
        /\ WindowProperties(window) = DocumentedVisible

\* A text occurs in a formatted body.
Contains(body, piece) == \E i \in DOMAIN body : body[i] = piece

\* C7: a get_queue_length that finds the queue as clear_queue left it
\* returns 0, whatever the queue held before; and a batch inference call
\* that passed the key check and finds the queue so returns the error of
\* the empty queue and has sent nothing.
C7_ClearedQueueIsEmpty ==
    \A k \in Entries :
        /\ (log[k].op = "len" /\ log[k].after_clear) => log[k].ret = 0
        /\ ( /\ log[k].op = "batch" /\ log[k].granted
             /\ log[k].after_clear /\ log[k].done )
           => /\ ~log[k].ret.ok
              /\ log[k].ret.val = EmptyQueue
              /\ log[k].sent = <<>>

\* A picture was queued, the queue was cleared, and a batch call with the
\* key present met the empty queue.
C7_Witness ==
    /\ AllReturned /\ images = <<>> /\ files # <<>>
    /\ \E i, j, k \in Entries :
          /\ i < j /\ j < k
          /\ log[i].op = "add" /\ log[i].done
          /\ log[i].ret.ok /\ log[i].ret.val = 1
          /\ log[j].op = "clear"
          /\ log[k].op = "batch" /\ log[k].granted /\ log[k].after_clear
          /\ ~log[k].ret.ok /\ log[k].ret.val = EmptyQueue

\* C8: every request to the primary provider, of the batch call and of
\* the extraction stage, was built from a queue a1..an with n >= 1 and has
\* as its parts the prompt, as one text part, and then n image parts, the
\* i-th being the PNG encoding of the file of ai; no two of them are the
\* same.
C8_RequestPartsFollowQueue ==
    \A k \in Entries :
        \A r \in 1..Len(log[k].sent) :
            log[k].sent[r].to = "gemini" =>
                LET parts == log[k].sent[r].parts
                    q == log[k].snap
                    n == Len(q)
                IN /\ log[k].op \in {"batch", "beast"}
                   /\ n >= 1
                   /\ Len(parts) = n + 1
                   /\ \E p \in Prompts : parts[1] = TextPart(p)
                   /\ \A i \in 1..n :
                         parts[i + 1] = ImagePart(Base64Encode(files[q[i]]))
                   /\ \A i, j \in 1..n : i # j => parts[i + 1] # parts[j + 1]

\* A batch call has sent a request for a queue of two pictures or more.
C8_Witness ==
    \E k \in Entries :
        /\ log[k].op = "batch"
        /\ Len(log[k].snap) >= 2
        /\ Len(log[k].sent) = 1
        /\ Len(log[k].sent[1].parts) = Len(log[k].snap) + 1

\* C9: when the extraction stage of call_beast_mode gets its response and
\* HUGGINGFACE_TOKEN is not in the environment, the call returns at once,
\* with Ok, a body that holds the extracted text and the notice that the
\* token is not configured, and no request to the secondary provider.
C9_AbsentTokenReturnsExtraction ==
    [][ \A t \in Threads :
            ( /\ pc[t] = "iq_wait" /\ loc[t].op = "beast"
              /\ env.HUGGINGFACE_TOKEN = None
              /\ log'[loc[t].idx].text # None )
            => LET e == log'[loc[t].idx]
               IN /\ e.done /\ pc'[t] = "idle"
                  /\ e.ret.ok
                  /\ Contains(e.ret.val, e.text)
                  /\ Contains(e.ret.val, NoteNotConfigured)
                  /\ \A r \in 1..Len(e.sent) : e.sent[r].to = "gemini"
      ]_vars

\* A pipeline call over a queue with a picture returned the extraction
\* with the notice, the token being absent.
C9_Witness ==
    \E k \in Entries :
        /\ log[k].op = "beast" /\ log[k].done /\ log[k].hf = "absent"
        /\ Len(log[k].snap) >= 1
        /\ log[k].text = "text-A"
        /\ log[k].ret = Ok(NotConfiguredBody("text-A"))
        /\ env.HUGGINGFACE_TOKEN = None

\* The notice of each failure of the POST that degrades.
Notice(hf) ==
    CASE hf = "503" -> NoteUnavailable
      [] hf = "400" -> NoteBadRequest
      [] hf = "transport" -> NoteNetwork

Degrading == {"503", "400", "transport"}

\* C10: a call of call_beast_mode whose extraction stage succeeded and
\* whose POST ended with status 503, with status 400 or without a
\* response has returned Ok with a body that holds the extracted text and
\* the notice of that failure.
C10_DegradedReturnsExtraction ==
    \A k \in Entries :
        ( /\ log[k].op = "beast" /\ log[k].done
          /\ log[k].hf \in Degrading )
        => /\ log[k].ret.ok
           /\ Contains(log[k].ret.val, log[k].text)
           /\ Contains(log[k].ret.val, Notice(log[k].hf))
           /\ Len(log[k].sent) = 2

\* Two pipeline calls have returned, one after a 503 and one after a
\* failure of the transport.
C10_Witness ==
    \E j, k \in Entries :
        /\ log[j].op = "beast" /\ log[j].done /\ log[j].hf = "503"
        /\ log[k].op = "beast" /\ log[k].done /\ log[k].hf = "transport"
        /\ log[j].text = "text-A" /\ log[k].text = "text-A"
        /\ log[j].ret.ok /\ log[k].ret.ok

\* The statuses of the POST that are neither a success nor degraded.
OtherStatuses == {ToString(st) : st \in HfFailures \ {400, 503}}

\* The bodies a failed POST is reported with.
ErrorTexts == {"error body", "Unknown error"}

\* C11: a call of call_beast_mode whose extraction stage succeeded and
\* whose POST ended with a status that is no success, not 503 and not 400
\* has returned an error (not Ok) that carries the status and the text of
\* the response.
C11_OtherStatusIsHardError ==
    \A k \in Entries :
        ( /\ log[k].op = "beast" /\ log[k].done
          /\ log[k].hf \in OtherStatuses )
        => /\ ~log[k].ret.ok
           /\ Contains(log[k].ret.val, log[k].hf)
           /\ \E b \in ErrorTexts : Contains(log[k].ret.val, b)

\* The requests of a call to the secondary provider, by position.
HfRequests(e) == {r \in 1..Len(e.sent) : e.sent[r].to = "huggingface"}

\* C12: a call of call_beast_mode whose extraction stage failed returned
\* the error of that failure (the missing key, the empty queue, the
\* unreadable file or the provider's error) and sent nothing to the
\* secondary provider; a call sends at most one request to the secondary
\* provider, and only after its extraction request got its response.
C12_ExtractionFailureEndsPipeline ==
    \A k \in Entries :
        log[k].op = "beast" =>
            /\ Cardinality(HfRequests(log[k])) <= 1
            /\ HfRequests(log[k]) # {} =>
                  /\ log[k].text # None
                  /\ HfRequests(log[k]) = {2}
                  /\ log[k].sent[1].to = "gemini"
            /\ (log[k].done /\ log[k].text = None) =>
                  /\ HfRequests(log[k]) = {}
                  /\ ~log[k].ret.ok
                  /\ log[k].ret.val =
                        IF ~log[k].granted THEN MissingKey
                        ELSE IF log[k].snap = <<>> THEN EmptyQueue
                        ELSE IF log[k].sent = <<>> THEN "file not readable"
                        ELSE CHOOSE e \in ChatErrors : TRUE

\* One pipeline call failed at the provider and another sent its one
\* request to the secondary provider.
C12_Witness ==
    \E j, k \in Entries :
        /\ log[j].op = "beast" /\ log[j].done /\ log[j].text = None
        /\ Len(log[j].sent) = 1 /\ ~log[j].ret.ok
        /\ log[k].op = "beast" /\ log[k].done
        /\ HfRequests(log[k]) = {2}

\* C13 as stated: whatever the outcome of the escalation stage, a call of
\* call_beast_mode whose extraction stage succeeded returned a value that
\* holds the extracted text.
C13_ExtractionAlwaysReturned ==
    \A k \in Entries :
        (log[k].op = "beast" /\ log[k].done /\ log[k].text # None)
        => Contains(log[k].ret.val, log[k].text)

\* C13 amended: the value returned by a call whose extraction stage
\* succeeded holds the extracted text when the token was absent and when
\* the POST ended with 503, with 400 or without a response; after a
\* successful POST it is the generated text or one of the fixed notices,
\* and after any other status the message with the status and the
\* response's text, none of which the extracted text is added to.
C13_ExtractionReturnedWhenDegraded ==
    \A k \in Entries :
        (log[k].op = "beast" /\ log[k].done /\ log[k].text # None)
        => IF log[k].hf \in Degrading \cup {"absent"}
           THEN Contains(log[k].ret.val, log[k].text)
           ELSE IF log[k].hf \in OtherStatuses
           THEN \E b \in ErrorTexts :
                   log[k].ret.val =
                       <<"AI model API error (", log[k].hf, "): ", b>>
           ELSE \E sh \in HfShapes : log[k].ret.val = ParsedBody(sh)

\* Two pipeline calls returned after their extraction, one with the
\* generated text of the secondary provider and one after a failure of
\* the transport.
C13_Witness ==
    \E j, k \in Entries :
        /\ log[j].op = "beast" /\ log[j].done /\ log[j].text = "text-A"
        /\ log[j].hf = "200" /\ log[j].ret.ok
        /\ log[j].ret.val = <<"hf answer">>
        /\ log[k].op = "beast" /\ log[k].done /\ log[k].text = "text-A"
        /\ log[k].hf = "transport"

InferenceOps == {"ask", "batch", "beast"}

\* No call of set_gemini_api_key is in progress, and none was invoked
\* while another one was.
SetKeysSequential ==
    /\ \A t \in Threads : pc[t] # "sk_env"
    /\ \A k \in Entries : ~log[k].raced

MissingKeyError(e) == e.done /\ ~e.ret.ok /\ e.ret.val = MissingKey

\* C14: after any sequence of calls of set_gemini_api_key, made one after
\* the other, an inference call (single-shot, batch or pipeline) invoked
\* when config.api_key is None (what get_gemini_api_key returns) returns
\* the missing-key error at once, having sent no request; invoked when it
\* is Some, it does not return that error, at once or later.
C14_KeyCheckFollowsConfiguration ==
    [][/\ (/\ Len(log') = Len(log) + 1
           /\ log'[Len(log')].op \in InferenceOps
           /\ SetKeysSequential)
          => LET e == log'[Len(log')]
             IN (config.api_key = None)
                <=> (MissingKeyError(e) /\ e.sent = <<>>)
       /\ \A k \in Entries :
            (log[k].op \in InferenceOps /\ ~log[k].done)
            => ~MissingKeyError(log'[k])]_vars

\* A call of the setter returned, the getter then returned None, and the
\* inference call after it returned the missing-key error.
C14_Witness ==
    /\ SetKeysSequential
    /\ \E j \in Entries :
          /\ j + 2 \in Entries
          /\ log[j].op = "set_key" /\ log[j].done
          /\ log[j + 1].op = "get_key" /\ log[j + 1].ret = None
          /\ log[j + 2].op \in InferenceOps
          /\ MissingKeyError(log[j + 2])

\* Where a batch call or the pipeline is once it has its copy of the queue.
InFlight == {"iq_send", "iq_wait", "bm_hf"}

ImageParts(parts) == SubSeq(parts, 2, Len(parts))

\* C15: a batch call or the pipeline that has taken its copy of the queue
\* does not hold the lock of the queue while it reads the files and waits
\* for the network; whatever add_image_to_queue and clear_queue do to the
\* queue meanwhile, its copy stays the queue as it was when copied, the
\* request it sends has one image part per copied path, in the order of
\* the copy, and a request once sent is not changed.
C15_RequestIsolatedFromQueue ==
    [][\A t \in Threads :
          pc[t] \in InFlight =>
              LET idx == loc[t].idx
                  q == log[idx].snap
              IN /\ mtx["images"] # t
                 /\ loc[t].paths = q
                 /\ pc'[t] \in InFlight =>
                      /\ loc'[t].paths = q
                      /\ log'[idx].snap = q
                      /\ log[idx].sent # <<>> =>
                           log'[idx].sent[1] = log[idx].sent[1]
                 /\ (pc[t] = "iq_send" /\ pc'[t] = "iq_wait") =>
                      ImageParts(log'[idx].sent[1].parts)
                      = [i \in 1..Len(q) |->
                            ImagePart(Base64Encode(files[q[i]]))]]_vars

\* A call copied a queue of one picture or more and has its request in
\* flight; clear_queue emptied the queue after the copy was taken.
C15_Witness ==
    \E k \in Entries :
        /\ log[k].op \in {"batch", "beast"}
        /\ ~log[k].done
        /\ Len(log[k].sent) = 1
        /\ Len(log[k].sent[1].parts) = Len(log[k].snap) + 1
        /\ ~log[k].after_clear /\ cleared
        /\ images = <<>>

\* The time a gate last fired.
LastFired(name) ==
    CASE name = "toggle" -> last_toggle
      [] name = "nudge" -> last_nudge
      [] name = "add" -> last_capture

\* C17: a request that reads the time `now` at its gate is granted exactly
\* when now - last_fired >= the gate's interval (350, 120, 500 ms); the
\* step that compares is the step that sets last_fired to `now` on a
\* grant and leaves it alone on a denial; no other step changes a
\* last_fired, and none ever decreases.
C17_GateStampsOnGrant ==
    [][\A name \in Gated :
          LET last == LastFired(name)
          IN /\ LastFired(name)' >= last
             /\ IF Len(log') = Len(log) + 1 /\ log'[Len(log')].op = name
                THEN LET e == log'[Len(log')]
                     IN /\ e.granted <=> (e.now - last >= Interval(name))
                        /\ LastFired(name)' = IF e.granted THEN e.now
                                              ELSE last
                ELSE LastFired(name)' = last]_vars

\* A gate fired at a reading later than the start, then denied a later
\* request and kept the time of the grant.
C17_Witness ==
    \E j, k \in Entries :
        /\ j < k /\ log[j].op \in Gated /\ log[k].op = log[j].op
        /\ log[j].granted /\ ~log[k].granted
        /\ log[j].now > INITIAL_BACKDATE_MS
        /\ log[k].now > log[j].now
        /\ LastFired(log[j].op) = log[j].now

\* No call of toggle_window_visibility is between its gate and its return.
NoToggleInProgress == \A t \in Threads : pc[t] \notin {"tg_flip", "tg_set"}

\* C18: in every state in which no toggle request is in progress, however
\* the granted requests before it interleaved, the window accepts pointer
\* events exactly when the visibility flag is true.
C18_PointerEventsFollowFlag ==
    NoToggleInProgress => (window.ignore_cursor_events <=> ~visible)

GrantedToggles == {k \in Entries : log[k].op = "toggle" /\ log[k].granted}

\* With no granted toggle between its gate and its exchange, the flag is
\* true exactly when the number of granted toggles is even.
FlagIsParity ==
    (\A t \in Threads : pc[t] # "tg_flip")
    => (visible <=> Cardinality(GrantedToggles) % 2 = 0)

\* C19: concurrent toggle requests lose no update: whenever no granted
\* toggle is between its gate and its exchange, the flag is the start's
\* true negated once per toggle granted so far; the exchange of a granted
\* toggle negates the flag, and the toggle returns the negation of the
\* value its exchange replaced.
C19_NoLostToggle ==
    [][/\ FlagIsParity /\ FlagIsParity'
       /\ \A t \in Threads :
            /\ (pc[t] = "tg_flip" /\ pc'[t] # "tg_flip")
               => (visible' = ~visible /\ loc'[t].flag = ~visible)
            /\ (pc[t] = "tg_set" /\ pc'[t] = "tg_set")
               => loc'[t].flag = loc[t].flag
            /\ (pc[t] = "tg_set" /\ pc'[t] = "idle")
               => /\ log'[loc[t].idx].done
                  /\ log'[loc[t].idx].ret = loc[t].flag]_vars

\* Two granted toggles are past their exchanges at once, neither has
\* returned, and they hold opposite values to return.
C19_Witness ==
    /\ Cardinality(GrantedToggles) = 2
    /\ \A k \in GrantedToggles : ~log[k].done
    /\ \A t \in Threads : pc[t] = "tg_set"
    /\ \E t, u \in Threads : loc[t].flag /\ ~loc[u].flag
    /\ visible

\* C20: a step changes the queue in one of two ways only: the push of a
\* granted add_image_to_queue whose capture succeeded appends that call's
\* one picture at the tail, the rest of the queue as it was, and
\* clear_queue empties it; every other step (get_queue_length, the copies
\* and requests of the inference calls, toggle, nudge, the stand-alone
\* capture, a debounced or failed add) leaves the queue as it is.
C20_QueueAppendsOrClears ==
    [][images' # images =>
          \/ \E t \in Threads :
                LET idx == loc[t].idx
                IN /\ pc[t] = "aq_push" /\ pc'[t] = "idle"
                   /\ log[idx].op = "add" /\ log[idx].granted
                   /\ images' = Append(images, log[idx].path)
                   /\ log'[idx].done /\ log'[idx].ret.ok
          \/ /\ Len(log') = Len(log) + 1
             /\ log'[Len(log')].op = "clear"
             /\ images' = <<>>]_vars

\* A stand-alone capture and a capture for the queue both saved their
\* pictures, a batch call has its request in flight, and the queue holds
\* the one picture of add_image_to_queue.
C20_Witness ==
    /\ Len(files) = 2 /\ Len(images) = 1
    /\ \E i, j, k \in Entries :
          /\ log[i].op = "capture" /\ log[i].ret.ok
          /\ log[j].op = "add" /\ log[j].done /\ log[j].ret.ok
          /\ images = <<log[j].path>>
          /\ log[k].op = "batch" /\ log[k].sent # <<>>

\* Where picture p stands in the queue (0 when it is not there).
Position(p) ==
    IF \E i \in 1..Len(images) : images[i] = p
    THEN CHOOSE i \in 1..Len(images) : images[i] = p
    ELSE 0

\* C21: of two requests of add_image_to_queue that the gate granted and
\* that both succeeded, the picture of the one granted and captured first
\* stands before the picture of the other in the queue, however the two
\* requests interleaved.
C21_QueueOrderIsCaptureOrder ==
    \A j, k \in Entries :
        ( /\ j < k
          /\ log[j].op = "add" /\ log[j].granted /\ log[j].done
          /\ log[k].op = "add" /\ log[k].granted /\ log[k].done
          /\ log[j].ret.ok /\ log[k].ret.ok
          /\ log[j].path < log[k].path
          /\ Position(log[j].path) > 0 /\ Position(log[k].path) > 0 )
        => Position(log[j].path) < Position(log[k].path)

\* C22: no interleaving of toggle, nudge, add_image_to_queue,
\* get_queue_length, clear_queue, the batch call, the pipeline and the
\* setters deadlocks: a lock is held across steps only by a debounced add,
\* which holds the capture timestamp while it takes the queue, and every
\* command that has started returns, given that the threads are scheduled
\* and that the captures and the calls to the providers return.
C22_EveryCommandReturns ==
    /\ [](\A m \in LockNames :
             mtx[m] # NoThread
             => (m = "last_capture" /\ pc[mtx[m]] = "aq_denied"))
    /\ \A t \in Threads : (pc[t] # "idle") ~> (pc[t] = "idle")

\* A debounced add holds the guard of last_capture and is about to take
\* the lock of the queue, while another command is between two of its
\* uses of the queue.
C22_Witness ==
    \E t, u \in Threads :
        /\ pc[t] = "aq_denied" /\ mtx["last_capture"] = t
        /\ pc[u] \in {"aq_push", "iq_snap", "iq_send"}

\* A granted add_image_to_queue whose capture failed.
FailedCapture(e) == e.op = "add" /\ e.granted /\ e.done /\ ~e.ret.ok

\* C23: the step in which a granted add_image_to_queue fails at its
\* capture returns an error and leaves the queue and the gate alone, the
\* gate standing at the time of the failed call or later; a request that
\* reaches the gate less than 500 ms after a failed one is denied; and a
\* denied request returns the length of the queue as a success and leaves
\* the queue as it is.
C23_FailedCaptureKeepsGateShut ==
    [][/\ \A t \in Threads :
            LET idx == loc[t].idx
            IN /\ (pc[t] = "aq_capture" /\ pc'[t] = "idle")
                  => /\ FailedCapture(log'[idx])
                     /\ log'[idx].ret.val \in CaptureFailures
                     /\ images' = images
                     /\ last_capture' = last_capture
                     /\ last_capture >= log[idx].now
               /\ (pc[t] = "aq_denied" /\ pc'[t] = "idle")
                  => /\ log'[idx].ret.ok
                     /\ log'[idx].ret.val = Len(images)
                     /\ images' = images
       /\ (Len(log') = Len(log) + 1 /\ log'[Len(log')].op = "add")
          => LET e == log'[Len(log')]
             IN (\E j \in Entries :
                    /\ FailedCapture(log[j])
                    /\ e.now - log[j].now < CAPTURE_DEBOUNCE_MS)
                => (~e.granted /\ last_capture' = last_capture)]_vars

\* After a successful capture, a granted request failed at its capture
\* and a retry less than 500 ms later was denied and returned the length
\* of the queue, one; the gate stands at the time of the failed call.
C23_Witness ==
    /\ Len(log) = 3 /\ OnlyOp("add") /\ AllReturned
    /\ log[1].ret.ok /\ images = <<log[1].path>>
    /\ FailedCapture(log[2])
    /\ log[3].now > log[2].now
    /\ log[3].now - log[2].now < CAPTURE_DEBOUNCE_MS
    /\ ~log[3].granted /\ log[3].ret.ok /\ log[3].ret.val = 1
    /\ last_capture = log[2].now

====
